---- MODULE Spec2Model ----
(***************************************************************************)
(* Model of src/formats/idx.rs: the reconstructable `.idx` document        *)
(* (IdxFile), its parser, its timing projection / update and its           *)
(* serializer.                                                             *)
(*                                                                         *)
(* Text is a sequence of bytes.  An ASCII byte is written as the one       *)
(* character string it prints as; the three bytes of the UTF-8 byte order  *)
(* mark are written "EF", "BB", "BF".  A TimePoint is its number of        *)
(* milliseconds.                                                           *)
(***************************************************************************)
EXTENDS Integers, Sequences, FiniteSets, TLC

VARIABLES
    text,      \* the input handed to IdxFile::parse
    st,        \* "start" | "parsed" | "parse_err" | "panicked" | "codec"
    v,         \* IdxFile.v : the parts of the document
    err,       \* line_num of the IdxLineParseError, -1 when there is none
    lastOp,    \* the last operation called on the document
    arg,       \* the entries handed to the last update_subtitle_entries
    ret,       \* what the last get_subtitle_entries / to_data returned
    panic,     \* the panic that ended the last call, "" when it returned
    reparsed,  \* TRUE once the text parsed is an output of to_data
    prevTs,    \* the timings of the document the parsed output came from
    cst,       \* codec run: "off" | "idle" | "encoded" | "decoded"
    cp,        \* codec run: the TimePoint being encoded
    cText,     \* codec run: fn_timing_to_string(cp)
    cDec       \* codec run: result of parsing the line `timestamp: <cText>`

vars == <<text, st, v, err, lastOp, arg, ret, panic, reparsed, prevTs, cst, cp, cText, cDec>>

docVars == <<text, st, v, err, lastOp, arg, ret, panic, reparsed, prevTs>>
codecVars == <<cst, cp, cText, cDec>>

-----------------------------------------------------------------------------
(* Bounds of the explored inputs *)

MaxLines == 2        \* lines of an input text
MaxEntries == 2      \* length of the list handed to update_subtitle_entries
MaxHours == 100      \* largest hours component of an encoded TimePoint

-----------------------------------------------------------------------------
(* Strings *)

Drop(s, n) == SubSeq(s, n + 1, Len(s))

Take(s, n) == SubSeq(s, 1, n)

StartsWith(s, p) == Len(p) <= Len(s) /\ Take(s, Len(p)) = p

RECURSIVE Concat(_)
Concat(ss) == IF ss = <<>> THEN <<>> ELSE Head(ss) \o Concat(Tail(ss))

Digits == <<"0", "1", "2", "3", "4", "5", "6", "7", "8", "9">>

IsDigit(c) == \E i \in 1..10 : Digits[i] = c

DigitVal(c) == (CHOOSE i \in 1..10 : Digits[i] = c) - 1

IsWs(c) == c \in {" ", "\t"}

IsDigitOrColon(c) == IsDigit(c) \/ c = ":"

\* the byte classes the parsers match on
InClass(c, class) ==
    CASE class = "ws" -> IsWs(c)
      [] class = "digit" -> IsDigit(c)
      [] class = "digit_or_colon" -> IsDigitOrColon(c)
      [] class = "not_lf" -> c # "\n"

\* length of the longest prefix of s whose bytes are all of the class
RECURSIVE PrefixLen(_, _)
PrefixLen(s, class) ==
    IF s # <<>> /\ InClass(Head(s), class) THEN 1 + PrefixLen(Tail(s), class) ELSE 0

Marker == <<"t", "i", "m", "e", "s", "t", "a", "m", "p", ":">>

Bom == <<"EF", "BB", "BF">>

\* str::trim_start
trim_start(s) == Drop(s, PrefixLen(s, "ws"))

\* decimal value of a run of digits (FromStr for i64)
RECURSIVE FromStr(_)
FromStr(s) ==
    IF s = <<>> THEN 0 ELSE 10 * FromStr(Take(s, Len(s) - 1)) + DigitVal(s[Len(s)])

\* decimal digits of n >= 0, no padding
RECURSIVE ToStr(_)
ToStr(n) ==
    IF n < 10 THEN <<Digits[n + 1]>> ELSE ToStr(n \div 10) \o <<Digits[(n % 10) + 1]>>

\* format!("{:0w$}", n) for n >= 0 : zero padded to at least w digits
RECURSIVE Pad(_, _)
Pad(s, w) == IF Len(s) >= w THEN s ELSE Pad(<<"0">> \o s, w)

-----------------------------------------------------------------------------
(* Time types *)

MsecsPerSec == 1000
SecsPerMin == 60
MinsPerHour == 60

from_components(hours, mins, secs, msecs) ==
    msecs + MsecsPerSec * (secs + SecsPerMin * (mins + MinsPerHour * hours))

hours(t) == t \div (MsecsPerSec * SecsPerMin * MinsPerHour)

mins_comp(t) == (t \div (MsecsPerSec * SecsPerMin)) % MinsPerHour

secs_comp(t) == (t \div MsecsPerSec) % SecsPerMin

msecs_comp(t) == t % MsecsPerSec

\* TimeDelta::from_mins
from_mins(m) == m * SecsPerMin * MsecsPerSec

\* TimeSpan::new followed by SubtitleEntry::from
SubtitleEntry(start, end) == [start |-> start, end |-> end]

-----------------------------------------------------------------------------
(* IdxFilePart and results *)

Filler(s) == [kind |-> "Filler", text |-> s]

Timestamp(t) == [kind |-> "Timestamp", t |-> t]

Ok(x) == [ok |-> TRUE, val |-> x]

\* Err(IdxLineParseError { line_num, msg }) ; the message text is not modelled
IdxLineParseError(line_num) == [ok |-> FALSE, line_num |-> line_num]

-----------------------------------------------------------------------------
(* common.rs helpers used by the parser *)

\* (bom, rest)
split_bom(s) ==
    IF StartsWith(s, Bom) THEN <<Bom, Drop(s, Len(Bom))>> ELSE <<<<>>, s>>

\* sequence of <<line, newline>> ; newline is "", "\n" or "\r\n"
RECURSIVE get_lines_non_destructive(_)
get_lines_non_destructive(s) ==
    IF s = <<>> THEN <<>>
    ELSE LET n == PrefixLen(s, "not_lf")
         IN IF n = Len(s) THEN << <<s, <<>>>> >>
            ELSE IF n >= 1 /\ s[n] = "\r"
                 THEN << <<Take(s, n - 1), <<"\r", "\n">>>> >>
                      \o get_lines_non_destructive(Drop(s, n + 1))
                 ELSE << <<Take(s, n), <<"\n">>>> >>
                      \o get_lines_non_destructive(Drop(s, n + 1))

\* one pass of dedup_string_parts: the part is merged into the last part of
\* result when both are Filler, and appended otherwise
push_part(result, part) ==
    IF result # <<>> /\ result[Len(result)].kind = "Filler" /\ part.kind = "Filler"
    THEN [result EXCEPT ![Len(result)] = Filler(@.text \o part.text)]
    ELSE Append(result, part)

\* (the result so far is bound as a value r before the next pass)
RECURSIVE dedup_loop(_, _)
dedup_loop(result, parts) ==
    IF parts = <<>> THEN result
    ELSE CHOOSE out \in { dedup_loop(r, Tail(parts)) :
                             r \in { push_part(result, Head(parts)) } } : TRUE

\* merges every run of adjacent Filler parts into one Filler
dedup_string_parts(parts) == dedup_loop(<<>>, parts)

\* number_i64 : optional '-', then one or more digits.
\* [ok, val, rest]
number_i64(s) ==
    LET neg == s # <<>> /\ Head(s) = "-"
        body == IF neg THEN Tail(s) ELSE s
        n == PrefixLen(body, "digit")
        i == FromStr(Take(body, n))
    IN IF n = 0 THEN [ok |-> FALSE, val |-> 0, rest |-> s]
       ELSE [ok |-> TRUE, val |-> IF neg THEN -i ELSE i, rest |-> Drop(body, n)]

\* token(':') : [ok, rest]
token_colon(s) ==
    IF s # <<>> /\ Head(s) = ":" THEN [ok |-> TRUE, rest |-> Tail(s)]
    ELSE [ok |-> FALSE, rest |-> s]

-----------------------------------------------------------------------------
(* IdxFile *)

\* IdxFile::new without the clean-up of adjacent fillers
IdxFile_new_raw(parts) == parts

IdxFile_new(parts) == dedup_string_parts(parts)

\* parse_timestamp handing minutes and seconds over in the wrong order
parse_timestamp_swapped(line_num, s) ==
    LET n1 == number_i64(s)
        c1 == token_colon(n1.rest)
        n2 == number_i64(c1.rest)
        c2 == token_colon(n2.rest)
        n3 == number_i64(c2.rest)
        c3 == token_colon(n3.rest)
        n4 == number_i64(c3.rest)
    IN IF n1.ok /\ c1.ok /\ n2.ok /\ c2.ok /\ n3.ok /\ c3.ok /\ n4.ok /\ n4.rest = <<>>
       THEN Ok(from_components(n1.val, n3.val, n2.val, n4.val))
       ELSE IdxLineParseError(line_num)

parse_timestamp(line_num, s) ==
    LET n1 == number_i64(s)
        c1 == token_colon(n1.rest)
        n2 == number_i64(c1.rest)
        c2 == token_colon(n2.rest)
        n3 == number_i64(c2.rest)
        c3 == token_colon(n3.rest)
        n4 == number_i64(c3.rest)
    IN IF n1.ok /\ c1.ok /\ n2.ok /\ c2.ok /\ n3.ok /\ c3.ok /\ n4.ok /\ n4.rest = <<>>
       THEN Ok(from_components(n1.val, n2.val, n3.val, n4.val))
       ELSE IdxLineParseError(line_num)

parse_line(line_num, s) ==
    IF ~StartsWith(trim_start(s), Marker) THEN Ok(<<Filler(s)>>)
    ELSE LET ws1 == Take(s, PrefixLen(s, "ws"))
             r1 == Drop(s, Len(ws1))
             r2 == Drop(r1, Len(Marker))
             ws2 == Take(r2, PrefixLen(r2, "ws"))
             r3 == Drop(r2, Len(ws2))
             timestamp_str == Take(r3, PrefixLen(r3, "digit_or_colon"))
             s2 == Drop(r3, Len(timestamp_str))
             ts == parse_timestamp(line_num, timestamp_str)
         IN IF ~StartsWith(r1, Marker) THEN IdxLineParseError(line_num)
            ELSE IF ~ts.ok THEN ts
            ELSE Ok(<<Filler(ws1), Filler(Marker), Filler(ws2),
                      Timestamp(ts.val), Filler(s2)>>)

\* the loop of parse_inner keeping a line that fails to parse as filler
RECURSIVE parse_lines_lenient(_, _, _)
parse_lines_lenient(lines, line_num, acc) ==
    IF line_num >= Len(lines) THEN Ok(acc)
    ELSE LET file_parts == parse_line(line_num, lines[line_num + 1][1])
             kept == IF file_parts.ok THEN file_parts.val
                     ELSE <<Filler(lines[line_num + 1][1])>>
         IN parse_lines_lenient(lines, line_num + 1,
                                acc \o kept \o <<Filler(lines[line_num + 1][2])>>)

\* the loop of parse_inner over lines[line_num + 1 ..], result so far in acc
RECURSIVE parse_lines(_, _, _)
parse_lines(lines, line_num, acc) ==
    IF line_num >= Len(lines) THEN Ok(acc)
    ELSE LET file_parts == parse_line(line_num, lines[line_num + 1][1])
         IN IF ~file_parts.ok THEN file_parts
            ELSE parse_lines(lines, line_num + 1,
                             acc \o file_parts.val \o <<Filler(lines[line_num + 1][2])>>)

\* (the lines and the result of the loop are bound as values ls and r)
parse_inner(i) ==
    LET sb == split_bom(i)
        loop(ls) == parse_lines(ls, 0, <<Filler(sb[1])>>)
        finish(r) == IF r.ok THEN Ok(IdxFile_new(r.val)) ELSE r
    IN CHOOSE out \in { finish(r) : r \in { loop(ls) : ls \in { get_lines_non_destructive(sb[2]) } } } :
           TRUE

\* the timings of the document, in document order
RECURSIVE Timings(_)
Timings(parts) ==
    IF parts = <<>> THEN <<>>
    ELSE (IF Head(parts).kind = "Timestamp" THEN <<Head(parts).t>> ELSE <<>>)
         \o Timings(Tail(parts))

\* get_subtitle_entries pairing each timing with its successor only: no padded last entry
get_subtitle_entries_windows(parts) ==
    LET timings == Timings(parts)
        n == Len(timings)
    IN [i \in 1..(n - 1) |-> SubtitleEntry(timings[i], timings[i + 1])]

get_subtitle_entries(parts) ==
    LET timings == Timings(parts)
        n == Len(timings)
    IN IF n = 0 THEN <<>>
       ELSE LET next_timings == Tail(timings) \o <<timings[n] + from_mins(1)>>
            IN [i \in 1..n |-> SubtitleEntry(timings[i], next_timings[i])]

\* fn_timing_to_string writing the milliseconds with `{:02}`
fn_timing_to_string_short_ms(t) ==
    LET p == IF t < 0 THEN -t ELSE t
    IN (IF t < 0 THEN <<"-">> ELSE <<>>)
       \o Pad(ToStr(hours(p)), 2) \o <<":">>
       \o Pad(ToStr(mins_comp(p)), 2) \o <<":">>
       \o Pad(ToStr(secs_comp(p)), 2) \o <<":">>
       \o Pad(ToStr(msecs_comp(p)), 2)

\* fn_timing_to_string without the sign
fn_timing_to_string_unsigned(t) ==
    LET p == IF t < 0 THEN -t ELSE t
    IN Pad(ToStr(hours(p)), 2) \o <<":">>
       \o Pad(ToStr(mins_comp(p)), 2) \o <<":">>
       \o Pad(ToStr(secs_comp(p)), 2) \o <<":">>
       \o Pad(ToStr(msecs_comp(p)), 3)

fn_timing_to_string(t) ==
    LET p == IF t < 0 THEN -t ELSE t
    IN (IF t < 0 THEN <<"-">> ELSE <<>>)
       \o Pad(ToStr(hours(p)), 2) \o <<":">>
       \o Pad(ToStr(mins_comp(p)), 2) \o <<":">>
       \o Pad(ToStr(secs_comp(p)), 2) \o <<":">>
       \o Pad(ToStr(msecs_comp(p)), 3)

fn_file_part_to_string(part) ==
    IF part.kind = "Filler" THEN part.text ELSE fn_timing_to_string(part.t)

to_data(parts) == Concat([i \in 1..Len(parts) |-> fn_file_part_to_string(parts[i])])

\* the Filler arm of the update loop emptying the filler
update_filler_cleared(part) == Filler(<<>>)

\* `IdxFilePart::Filler(_) => {}` : the arm of the update loop for a Filler
update_filler(part) == part

\* update_subtitle_entries without its closing assertion
assert_count_skipped(count, len) == TRUE

\* `assert_eq!(count, ts.len())`
assert_count(count, len) == count = len

\* `ts[count - 1]` on usize. With count = 0 a debug build panics on the
\* subtraction; a release build wraps to usize::MAX, which is beyond every
\* slice, and panics on the bounds check. "" when the index is valid.
index_panic(count, len, build) ==
    IF count = 0
    THEN (IF build = "debug" THEN "subtract with overflow" ELSE "index out of bounds")
    ELSE IF count - 1 >= len THEN "index out of bounds" ELSE ""

\* the loop of update_subtitle_entries from part i on : [v, count, panic]
RECURSIVE update_loop(_, _, _, _, _)
update_loop(parts, ts, i, count, build) ==
    IF i > Len(parts) THEN [v |-> parts, count |-> count, panic |-> ""]
    ELSE IF parts[i].kind = "Filler"
    THEN update_loop([parts EXCEPT ![i] = update_filler(parts[i])], ts, i + 1, count, build)
    ELSE IF index_panic(count, Len(ts), build) # ""
    THEN [v |-> parts, count |-> count, panic |-> index_panic(count, Len(ts), build)]
    ELSE update_loop([parts EXCEPT ![i] = Timestamp(ts[count].start)],
                     ts, i + 1, count + 1, build)

\* [v, panic] : the parts after the call and the panic that ended it, if any
update_subtitle_entries(parts, ts, build) ==
    LET r == update_loop(parts, ts, 1, 0, build)
    IN IF r.panic # "" THEN [v |-> r.v, panic |-> r.panic]
       ELSE IF ~assert_count(r.count, Len(ts))
       THEN [v |-> r.v, panic |-> "assertion failed"]
       ELSE [v |-> r.v, panic |-> ""]

-----------------------------------------------------------------------------
(* Inputs *)

T10 == <<"0", "0", ":", "0", "0", ":", "1", "0", ":", "0", "0", "0">>
THours == <<"1", "0", "0", ":", "0", "0", ":", "0", "0", ":", "0", "0", "0">>
TShort == <<"1", ":", "2", ":", "3", ":", "4">>
TOver == <<"0", "0", ":", "9", "9", ":", "0", "0", ":", "0", "0", "0">>
TLead == <<"0", "0", "7", ":", "0", "0", ":", "0", "0", ":", "0", "0", "0">>
TTwo == <<"1", "2", ":", "9", "9">>
TFive == <<"1", ":", "2", ":", "3", ":", "4", ":", "5">>
TSigned == <<"-", "0", "0", ":", "0", "0", ":", "0", "1", ":", "5", "0", "0">>

\* the contents of a line, without its terminator
LineContents ==
    { <<>>,
      <<"x">> \o Marker \o <<" ">> \o TTwo,
      Marker \o <<" ">> \o T10 \o <<",", " ", "f">>,
      <<" ", "\t">> \o Marker \o THours \o <<"x">>,
      Marker \o <<" ">> \o TShort,
      Marker \o <<" ">> \o TOver,
      Marker \o <<" ">> \o TLead,
      Marker \o <<" ">> \o TTwo,
      <<" ", " ">> \o Marker,
      Marker \o <<" ">> \o TFive \o <<" ", "x">> }

Newlines == { <<"\n">>, <<"\r", "\n">> }

\* texts of at most k lines; only the last line may lack its terminator
RECURSIVE Bodies(_)
Bodies(k) ==
    IF k = 0 THEN { <<>> }
    ELSE { <<>> } \cup LineContents
         \cup { c \o nl \o rest : c \in LineContents, nl \in Newlines, rest \in Bodies(k - 1) }

Texts == { bom \o body : bom \in { <<>>, Bom }, body \in Bodies(MaxLines) }

\* the i-th interval handed to update_subtitle_entries : starts 5 s, 15 s, 25 s, ...
NewEntry(i) == SubtitleEntry(5000 + 10000 * (i - 1), 5000 + 10000 * (i - 1) + 2000)

NewEntries(n) == [i \in 1..n |-> NewEntry(i)]

Builds == { "debug", "release" }

Points ==
    { sgn * from_components(h, m, s, ms) :
        sgn \in { -1, 1 }, h \in { 0, 1, MaxHours }, m \in { 0, 59 },
        s \in { 0, 1, 59 }, ms \in { 0, 5, 500, 999 } }

-----------------------------------------------------------------------------
(* The document: parse, then any sequence of calls on the IdxFile *)

CodecOff == cst = "off" /\ cp = 0 /\ cText = <<>> /\ cDec = Ok(<<>>)

Init ==
    /\ text \in Texts
    /\ st = "start"
    /\ v = <<>>
    /\ err = -1
    /\ lastOp = "none"
    /\ arg = <<>>
    /\ ret = <<>>
    /\ panic = ""
    /\ reparsed = FALSE
    /\ prevTs = <<>>
    /\ CodecOff

\* IdxFile::parse(input)
DoParse(input) ==
    \E r \in { parse_inner(input) } :
       /\ text' = input
       /\ st' = IF r.ok THEN "parsed" ELSE "parse_err"
       /\ v' = IF r.ok THEN r.val ELSE <<>>
       /\ err' = IF r.ok THEN -1 ELSE r.line_num
       /\ lastOp' = "parse"
       /\ arg' = <<>>
       /\ ret' = <<>>
       /\ panic' = ""

Parse ==
    /\ st = "start"
    /\ DoParse(text)
    /\ UNCHANGED <<reparsed, prevTs, codecVars>>

GetEntries ==
    /\ st = "parsed"
    /\ ret' = get_subtitle_entries(v)
    /\ lastOp' = "get"
    /\ arg' = <<>>
    /\ UNCHANGED <<text, st, v, err, panic, reparsed, prevTs, codecVars>>

Update(ts, build) ==
    /\ st = "parsed"
    /\ \E r \in { update_subtitle_entries(v, ts, build) } :
          /\ v' = r.v
          /\ panic' = r.panic
          /\ st' = IF r.panic = "" THEN "parsed" ELSE "panicked"
    /\ lastOp' = "update"
    /\ arg' = ts
    /\ ret' = <<>>
    /\ UNCHANGED <<text, err, reparsed, prevTs, codecVars>>

Serialize ==
    /\ st = "parsed"
    /\ ret' = to_data(v)
    /\ lastOp' = "serialize"
    /\ arg' = <<>>
    /\ UNCHANGED <<text, st, v, err, panic, reparsed, prevTs, codecVars>>

\* IdxFile::parse on the bytes to_data just returned
Reparse ==
    /\ st = "parsed"
    /\ lastOp = "serialize"
    /\ DoParse(ret)
    /\ reparsed' = TRUE
    /\ prevTs' = Timings(v)
    /\ UNCHANGED codecVars

Next ==
    \/ Parse
    \/ GetEntries
    \/ \E n \in 0..MaxEntries, build \in Builds : Update(NewEntries(n), build)
    \/ Serialize
    \/ Reparse

Spec == Init /\ [][Next]_vars

-----------------------------------------------------------------------------
(* The timestamp codec on its own: encode a TimePoint, parse it back *)

InitCodec ==
    /\ text = <<>>
    /\ st = "codec"
    /\ v = <<>>
    /\ err = -1
    /\ lastOp = "none"
    /\ arg = <<>>
    /\ ret = <<>>
    /\ panic = ""
    /\ reparsed = FALSE
    /\ prevTs = <<>>
    /\ cst = "idle"
    /\ cp = 0
    /\ cText = <<>>
    /\ cDec = Ok(<<>>)

Encode(t) ==
    /\ cst = "idle"
    /\ cp' = t
    /\ cText' = fn_timing_to_string(t)
    /\ cst' = "encoded"
    /\ UNCHANGED <<cDec, docVars>>

\* parse_line on the line `timestamp: <encoded text>`
DecodeLine ==
    /\ cst = "encoded"
    /\ cDec' = parse_line(0, Marker \o <<" ">> \o cText)
    /\ cst' = "decoded"
    /\ UNCHANGED <<cp, cText, docVars>>

NextCodec ==
    \/ \E t \in Points : Encode(t)
    \/ DecodeLine

SpecCodec == InitCodec /\ [][NextCodec]_vars

-----------------------------------------------------------------------------
(* Vocabulary of the properties *)

IsTimestamp(part) == part.kind = "Timestamp"

\* t_1 .. t_n : the values of the Timestamp parts, in document order
DocTimestamps(parts) ==
    LET sel == SelectSeq(parts, IsTimestamp)
    IN [i \in 1..Len(sel) |-> sel[i].t]

\* the document with every Timestamp value blanked: part count, kinds, filler texts
Shape(parts) ==
    [i \in 1..Len(parts) |-> IF IsTimestamp(parts[i]) THEN "Timestamp" ELSE parts[i]]

\* the contents of the lines of a text, terminators and byte order mark removed
DocLines(t) ==
    LET ls == get_lines_non_destructive(split_bom(t)[2])
    IN [i \in 1..Len(ls) |-> ls[i][1]]

\* line = a blanks, then `timestamp:`
MarkerAt(line, a) ==
    /\ a + Len(Marker) <= Len(line)
    /\ \A i \in 1..a : IsWs(line[i])
    /\ SubSeq(line, a + 1, a + Len(Marker)) = Marker

\* the content starts with `timestamp:` after optional leading whitespace
IsMarkerLine(line) == \E a \in 0..Len(line) : MarkerAt(line, a)

\* the bytes from..to of line are a longest run of bytes of the class
RunAt(line, from, to, class) ==
    /\ \A i \in from..to : InClass(line[i], class)
    /\ to = Len(line) \/ ~InClass(line[to + 1], class)

\* the digit/colon token of a marker line: the longest run of digits and colons
\* that follows the marker and the blanks after it
TokenOf(line) ==
    LET a == CHOOSE a \in 0..Len(line) : MarkerAt(line, a)
        m == a + Len(Marker)
        b == CHOOSE b \in m..Len(line) : RunAt(line, m + 1, b, "ws")
        c == CHOOSE c \in b..Len(line) : RunAt(line, b + 1, c, "digit_or_colon")
    IN SubSeq(line, b + 1, c)

\* exactly four colon-separated, non-empty runs of digits
FourFields(tok) ==
    /\ tok # <<>>
    /\ \A i \in 1..Len(tok) : IsDigitOrColon(tok[i])
    /\ Cardinality({ i \in 1..Len(tok) : tok[i] = ":" }) = 3
    /\ tok[1] # ":" /\ tok[Len(tok)] # ":"
    /\ \A i \in 1..(Len(tok) - 1) : ~(tok[i] = ":" /\ tok[i + 1] = ":")

\* H..H:MM:SS:mmm as the encoder writes it: hours of two digits, or more without
\* a leading zero; minutes and seconds of two digits below 60; three digits of ms
Canonical(tok) ==
    \E h \in 2..Len(tok) :
        /\ Len(tok) = h + 10
        /\ \A i \in 1..Len(tok) :
               IF i \in { h + 1, h + 4, h + 7 } THEN tok[i] = ":" ELSE IsDigit(tok[i])
        /\ h > 2 => tok[1] # "0"
        /\ tok[h + 2] \in { "0", "1", "2", "3", "4", "5" }
        /\ tok[h + 5] \in { "0", "1", "2", "3", "4", "5" }

\* 0-based indices of the marker lines whose token is not four integer fields
MalformedLines(t) ==
    LET ls == DocLines(t)
    IN { i \in 0..(Len(ls) - 1) : IsMarkerLine(ls[i + 1]) /\ ~FourFields(TokenOf(ls[i + 1])) }

AllTokensCanonical(t) ==
    LET ls == DocLines(t)
    IN \A i \in 1..Len(ls) : IsMarkerLine(ls[i]) => Canonical(TokenOf(ls[i]))

Min(S) == CHOOSE x \in S : \A y \in S : x <= y

-----------------------------------------------------------------------------
(* Properties *)

\* C1 as stated: whenever a parsed document is serialized, the bytes returned
\* equal the text that was parsed, whatever the form of its timestamp tokens.
C1_RoundTripAnyToken ==
    (st = "parsed" /\ lastOp = "serialize") => ret = text

\* C1 amended: whenever a parsed document is serialized and every timestamp
\* token of the parsed text is in the encoder's own form (hours of two digits or
\* more without surplus zero, minutes and seconds of two digits below 60,
\* milliseconds of three digits), the bytes returned equal the parsed text:
\* byte order mark, line terminators and fillers included.
C1_RoundTripCanonical ==
    (st = "parsed" /\ lastOp = "serialize" /\ AllTokensCanonical(text)) => ret = text

C1_Witness ==
    /\ st = "parsed" /\ lastOp = "serialize" /\ ~reparsed
    /\ AllTokensCanonical(text)
    /\ StartsWith(text, Bom)
    /\ Len(DocTimestamps(v)) = 2
    /\ \E i \in 1..Len(text) : text[i] = "\r"
    /\ ret = text

\* C2 as stated: update_subtitle_entries called with exactly as many entries as
\* the document has Timestamp parts returns normally and leaves the i-th
\* Timestamp equal to the start of the i-th entry.
C2_UpdateWithMatchingCount ==
    (lastOp = "update" /\ Len(arg) = Len(DocTimestamps(v))) =>
        /\ st = "parsed"
        /\ panic = ""
        /\ \A i \in 1..Len(arg) : DocTimestamps(v)[i] = arg[i].start

\* C3: get_subtitle_entries returns normally with one interval per Timestamp
\* part: interval i starts at t_i and ends at t_(i+1), the last one ends 60
\* seconds after t_n; no interval when there is no Timestamp part.
C3_Intervals ==
    lastOp = "get" =>
        LET t == DocTimestamps(v)
            n == Len(t)
        IN /\ st = "parsed"
           /\ panic = ""
           /\ Len(ret) = n
           /\ \A i \in 1..n :
                  /\ ret[i].start = t[i]
                  /\ ret[i].end = IF i < n THEN t[i + 1] ELSE t[n] + 60000

C3_Witness ==
    /\ lastOp = "get"
    /\ Len(DocTimestamps(v)) = 2
    /\ Len(ret) = 2
    /\ ret[1].end = ret[2].start
    /\ ret[2].end = ret[2].start + 60000

C5_MismatchPanics ==
    (lastOp = "update" /\ Len(arg) # Len(DocTimestamps(v))) =>
        (st = "panicked" /\ panic # "")

C5_Witness ==
    /\ lastOp = "update"
    /\ DocTimestamps(v) = <<>>
    /\ Len(arg) = 2
    /\ panic = "assertion failed"

\* C6: in a parsed document, also after update calls, no two adjacent parts are
\* both Filler: fillers and timestamps alternate from a first Filler to a last
\* one, and a text without timestamps is one Filler holding the whole text.
C6_NoAdjacentFillers ==
    st \in { "parsed", "panicked" } =>
        /\ \A i \in 1..(Len(v) - 1) : ~(v[i].kind = "Filler" /\ v[i + 1].kind = "Filler")
        /\ Len(v) = 2 * Len(DocTimestamps(v)) + 1
        /\ \A i \in 1..Len(v) : IsTimestamp(v[i]) <=> i % 2 = 0
        /\ DocTimestamps(v) = <<>> => v = <<Filler(text)>>

C6_Witness ==
    /\ st = "parsed"
    /\ Len(v) = 5
    /\ Len(DocLines(text)) = 2
    /\ StartsWith(text, Bom)

\* C7: the encoding of a negative TimePoint is one `-` followed by the encoding
\* of its absolute value; an encoding without its sign is hours of at least two
\* digits, minutes and seconds of two digits, milliseconds of three digits, all
\* digits, whose fields add up to the absolute value; a non-negative TimePoint
\* has no sign; -1500 ms is written -00:00:01:500.
C7_SignedEncoding ==
    cst \in { "encoded", "decoded" } =>
        LET neg == cp < 0
            abs == IF neg THEN -cp ELSE cp
            body == IF neg THEN Tail(cText) ELSE cText
            h == Len(body) - 10
        IN /\ neg => Head(cText) = "-"
           /\ h >= 2
           /\ \A i \in 1..Len(body) :
                  IF i \in { h + 1, h + 4, h + 7 } THEN body[i] = ":" ELSE IsDigit(body[i])
           /\ abs = 3600000 * FromStr(SubSeq(body, 1, h))
                    + 60000 * FromStr(SubSeq(body, h + 2, h + 3))
                    + 1000 * FromStr(SubSeq(body, h + 5, h + 6))
                    + FromStr(SubSeq(body, h + 8, h + 10))
           /\ FromStr(SubSeq(body, h + 2, h + 3)) < 60
           /\ FromStr(SubSeq(body, h + 5, h + 6)) < 60
           /\ cp = -1500 => cText = TSigned

C7_Witness ==
    /\ cst = "encoded"
    /\ cp = -1500
    /\ cText = TSigned

\* C8 as stated: the encoded text of a TimePoint, negative ones included, read
\* back through the parser of a `timestamp:` line yields the TimePoint again.
C8_CodecInverse ==
    cst = "decoded" => (cDec.ok /\ cDec.val[4] = Timestamp(cp))

\* C9: a call on a constructed document never changes the number of parts, the
\* kind at a position or the text of a Filler; get_subtitle_entries and to_data
\* change nothing at all.
C9_Frame ==
    [][(st = "parsed" /\ lastOp' # "parse") =>
           /\ Shape(v') = Shape(v)
           /\ lastOp' # "update" => v' = v]_vars

C9_Witness ==
    /\ lastOp = "update"
    /\ Len(v) = 5
    /\ Len(arg) = 2

\* C10: the serialized form t' of a parsed text parses again, to the same
\* timestamps in the same order, and serializes to t' itself; parse yields no
\* negative TimePoint.
C10_FixedPoint ==
    /\ reparsed =>
           /\ st # "parse_err"
           /\ DocTimestamps(v) = prevTs
           /\ lastOp = "serialize" => ret = text
    /\ \A i \in 1..Len(DocTimestamps(v)) : DocTimestamps(v)[i] >= 0

C10_Witness ==
    /\ reparsed
    /\ lastOp = "serialize"
    /\ Len(prevTs) = 2
    /\ prevTs[1] = 3723004
    /\ ret = text

====
